---- MODULE Spec2Model ----
(***************************************************************************)
(* Model of the submission reminder engine of the bot:                     *)
(*   utils/smart_reminders.py   SmartReminderSystem (thresholds 50/70/90)  *)
(*   database/db_manager_old.py the persistence methods it calls, and the  *)
(*                              legacy schedule_exam_reminders             *)
(* Time is counted in tenths of an hour.                                   *)
(***************************************************************************)
EXTENDS Integers, Sequences, FiniteSets, TLC

\* ---------------------------------------------------------------- bounds
MaxUsers == 2
MaxExams == 1
CycleExams == 2
MaxDuration == 1
MaxNow == 240
TickTenths == 24
MaxFaults == 1

\* ------------------------------------------------------ program constants
HoursPerDay == 24
GraceHours == 2
CheckInterval == 3600
NoOwner == -1
NoManager == 0
\* exam['group_id'], the chat id of the group of the exam's class
GroupId == -100

\* durations in the unit of the clock
Hours(h) == h * 10
Seconds(s) == s \div 360

Users == 1..MaxUsers
Tasks == {"t1", "t2"}

\* self.REMINDER_THRESHOLDS, in list order
REMINDER_THRESHOLDS ==
    << [percent |-> 50, label |-> "first (50%)"],
       [percent |-> 70, label |-> "second (70%)"],
       [percent |-> 90, label |-> "last (90%)"] >>

Percents == {REMINDER_THRESHOLDS[i].percent : i \in 1..Len(REMINDER_THRESHOLDS)}

VARIABLES
    now,              \* wall clock, tenths of an hour
    running,          \* SmartReminderSystem.running
    exams,            \* table exams: exam_id -> row
    class_manager,    \* classes.manager_id of the class of the exams
    class_active,     \* classes.is_active of that class
    group_owner,      \* groups.owner_id of the group of that class
    students,         \* table students of that class: user_id -> status
    submissions,      \* table submissions: set of <<exam_id, student_user_id>>
    exam_reminders,   \* table exam_reminders (the ledger): sequence of rows
    reminder_schedules, \* table reminder_schedules (legacy scheduler)
    schedule_result,  \* what schedule_exam_reminders returned for each exam
    logs,             \* table logs: the newest smart_reminder_sent entry (the
                      \* engine only appends to the table and never reads it)
    faults,           \* number of persistence failures injected so far
    task,             \* the _reminder_loop tasks: position and locals
    scheduler         \* the ExamReminderScheduler: flag, position and locals

vars == << now, running, exams, class_manager, class_active, group_owner,
           students, submissions, exam_reminders, reminder_schedules,
           schedule_result, logs, faults, task, scheduler >>

dbvars == << exams, class_manager, class_active, group_owner, students, submissions >>

\* the exam ids of the rows of table exams
Exams == DOMAIN exams

\* ---------------------------------------------------------------- helpers
Min(S) == CHOOSE x \in S : \A y \in S : x <= y

RECURSIVE SetToSeq(_)
\* the elements of a set of integers, ascending
SetToSeq(S) == IF S = {} THEN << >> ELSE << Min(S) >> \o SetToSeq(S \ {Min(S)})

RECURSIVE SelectRows(_, _)
\* the rows of a table that do not have the given primary key
SelectRows(rows, key) ==
    IF rows = << >> THEN << >>
    ELSE IF << Head(rows).exam_id, Head(rows).reminder_percent >> = key
         THEN SelectRows(Tail(rows), key)
         ELSE << Head(rows) >> \o SelectRows(Tail(rows), key)

\* SELECT COUNT(*) FROM exam_reminders WHERE exam_id = e AND reminder_percent = p
CountRowsIn(rows, e, p) ==
    Cardinality({i \in 1..Len(rows) :
        rows[i].exam_id = e /\ rows[i].reminder_percent = p})

CountRows(e, p) == CountRowsIn(exam_reminders, e, p)

\* "no threshold": the None returned by _get_reminder_to_send
NoReminder == [percent |-> 0, label |-> "none"]

\* a loop task that has not been created; the locals of a pass are reset to
\* these values when the pass over an exam ends
IdleTask == [pc |-> "none", queue |-> << >>, exam |-> 0, todo |-> << >>,
             pending_students |-> << >>, submitted_count |-> 0, total_students |-> 0,
             reminder |-> NoReminder, success_count |-> 0,
             attempted |-> {}, failed |-> {}, skipped |-> {}, last_pass |-> "none"]

\* an ExamReminderScheduler after __init__: start() has not been called
IdleScheduler == [running |-> FALSE, pc |-> "none", queue |-> << >>, handled |-> << >>]

\* ---------------------------------------------------------- persistence
\* The text of exams.creation_date is one of
\*   "seconds"    YYYY-MM-DD HH:MM:SS, what CURRENT_TIMESTAMP writes
\*   "minutes"    YYYY-MM-DD HH:MM, a time string for SQLite's datetime() but
\*                not for strptime with '%Y-%m-%d %H:%M:%S'
\*   "malformed"  no time string at all
\* SQLite's datetime(creation_date, ...) is NULL for a text it cannot read,
\* and a comparison with NULL selects no row
SqliteParsesDate(e) == exams[e].date_format \in {"seconds", "minutes"}

\* mutant: the parser takes every text
PythonParsesDateAlways(e) == TRUE

\* the parse of _get_reminder_to_send: no 'T' in the text, so
\* datetime.strptime(creation_date_str, '%Y-%m-%d %H:%M:%S')
PythonParsesDate(e) == exams[e].date_format = "seconds"

\* mutant: the test of the 2 hours is missing
ExamIsActiveNoGrace(e) ==
    /\ exams[e].is_active
    /\ exams[e].date_format \in {"seconds", "minutes"}
    /\ exams[e].creation_date + Hours(exams[e].duration_days * HoursPerDay) > now

\* _get_active_exams: active, not expired, more than 2 hours old
ExamIsActive(e) ==
    /\ exams[e].is_active
    /\ SqliteParsesDate(e)
    /\ exams[e].creation_date + Hours(exams[e].duration_days * HoursPerDay) > now
    /\ exams[e].creation_date + Hours(GraceHours) < now

GetActiveExams == SetToSeq({e \in Exams : ExamIsActive(e)})

\* db.get_class_students(class_id, status='approved'), ORDER BY full_name
GetClassStudents == SetToSeq({u \in Users : students[u] = "approved"})

\* _get_submitted_students: SELECT DISTINCT student_user_id
GetSubmittedStudents(e) == {u \in Users : << e, u >> \in submissions}

\* mutant: the lookup never finds the row
IsReminderSentNever(e, p) == FALSE

\* _is_reminder_sent: COUNT(*) > 0
IsReminderSent(e, p) == CountRows(e, p) > 0

\* db.get_user_managed_classes: classes with manager_id = user and is_active = 1
GetUserManagedClasses(u) ==
    IF class_manager = u /\ class_active THEN {"class"} ELSE {}

\* _is_user_manager
IsUserManager(u) == Cardinality(GetUserManagedClasses(u)) > 0

\* db.is_group_owner / _is_user_owner
IsUserOwner(u) == group_owner = u /\ group_owner # NoOwner

\* ------------------------------------------------------- threshold policy
\* total_duration and time_elapsed of _get_reminder_to_send
TotalDuration(e) == Hours(exams[e].duration_days * HoursPerDay)
TimeElapsed(e) == now - exams[e].creation_date

\* mutant: every threshold counts as crossed
CrossedAlways(e, p) == TRUE

\* mutant: > instead of >=
CrossedStrict(e, p) ==
    (now - exams[e].creation_date) * 100 > p * Hours(exams[e].duration_days * HoursPerDay)

\* percent_elapsed >= threshold_percent, without the division
Crossed(e, p) == TimeElapsed(e) * 100 >= p * TotalDuration(e)

RECURSIVE FirstDue(_, _, _)
\* the for loop over REMINDER_THRESHOLDS from position i: the first threshold
\* that is crossed and is not among the percents reported as already sent
FirstDue(e, i, sent) ==
    IF i > Len(REMINDER_THRESHOLDS) THEN NoReminder
    ELSE IF Crossed(e, REMINDER_THRESHOLDS[i].percent)
            /\ REMINDER_THRESHOLDS[i].percent \notin sent
         THEN REMINDER_THRESHOLDS[i]
         ELSE FirstDue(e, i + 1, sent)

RECURSIVE LastDue(_, _, _)
\* mutant: the loop runs from the highest threshold down
LastDue(e, i, sent) ==
    IF i < 1 THEN NoReminder
    ELSE IF Crossed(e, REMINDER_THRESHOLDS[i].percent)
            /\ REMINDER_THRESHOLDS[i].percent \notin sent
         THEN REMINDER_THRESHOLDS[i]
         ELSE LastDue(e, i - 1, sent)

GetReminderToSendHighest(e) ==
    IF TotalDuration(e) <= 0 THEN NoReminder
    ELSE LastDue(e, Len(REMINDER_THRESHOLDS), {p \in Percents : IsReminderSent(e, p)})

\* _get_reminder_to_send with a working ledger lookup
GetReminderToSend(e) ==
    IF ~PythonParsesDate(e) THEN NoReminder
    ELSE IF TotalDuration(e) <= 0 THEN NoReminder
    ELSE FirstDue(e, 1, {p \in Percents : IsReminderSent(e, p)})

\* _get_reminder_to_send when _is_reminder_sent raises and answers False
GetReminderToSendLookupFailed(e) ==
    IF ~PythonParsesDate(e) THEN NoReminder
    ELSE IF TotalDuration(e) <= 0 THEN NoReminder
    ELSE FirstDue(e, 1, {})

\* ----------------------------------------------------------------- Init
Init ==
    /\ now = 0
    /\ running = FALSE
    /\ exams \in [1..MaxExams -> [creation_date : {0}, date_format : {"seconds"},
                                  duration_days : 0..MaxDuration, is_active : {TRUE}]]
    /\ class_manager \in Users \cup {NoManager}
    /\ class_active = TRUE
    /\ group_owner \in Users \cup {NoOwner}
    /\ students \in [Users -> {"none", "approved"}]
    /\ submissions = {}
    /\ exam_reminders = << >>
    /\ reminder_schedules = << >>
    /\ schedule_result = [e \in Exams |-> "none"]
    /\ logs = << >>
    /\ faults = 0
    /\ task = [t \in Tasks |-> IdleTask]
    /\ scheduler = IdleScheduler

\* the engine is constructed four clock steps after the exams were created:
\* a database with several exams whose creation dates were written in any of
\* the three forms; every user is an approved student of the class and the
\* last of them owns the group
InitCycle ==
    /\ now = 4 * TickTenths
    /\ running = FALSE
    /\ exams \in [1..CycleExams -> [creation_date : {0},
                                    date_format : {"seconds", "minutes", "malformed"},
                                    duration_days : {MaxDuration}, is_active : {TRUE}]]
    /\ class_manager = NoManager
    /\ class_active = TRUE
    /\ group_owner = MaxUsers
    /\ students = [u \in Users |-> "approved"]
    /\ submissions = {}
    /\ exam_reminders = << >>
    /\ reminder_schedules = << >>
    /\ schedule_result = [e \in Exams |-> "none"]
    /\ logs = << >>
    /\ faults = 0
    /\ task = [t \in Tasks |-> IdleTask]
    /\ scheduler = IdleScheduler

\* a database with one exam of MaxDuration days, the roster as in InitCycle
InitLifecycle ==
    /\ now = 4 * TickTenths
    /\ running = FALSE
    /\ exams = [e \in 1..MaxExams |->
                   [creation_date |-> 0, date_format |-> "seconds",
                    duration_days |-> MaxDuration, is_active |-> TRUE]]
    /\ class_manager = NoManager
    /\ class_active = TRUE
    /\ group_owner = MaxUsers
    /\ students = [u \in Users |-> "approved"]
    /\ submissions = {}
    /\ exam_reminders = << >>
    /\ reminder_schedules = << >>
    /\ schedule_result = [e \in Exams |-> "none"]
    /\ logs = << >>
    /\ faults = 0
    /\ task = [t \in Tasks |-> IdleTask]
    /\ scheduler = IdleScheduler

\* a database with several exams of MaxDuration days whose first two
\* thresholds were fired by an earlier run of the engine; the roster as in
\* InitCycle
InitShutdown ==
    /\ now = 8 * TickTenths
    /\ running = FALSE
    /\ exams = [e \in 1..CycleExams |->
                   [creation_date |-> 0, date_format |-> "seconds",
                    duration_days |-> MaxDuration, is_active |-> TRUE]]
    /\ class_manager = NoManager
    /\ class_active = TRUE
    /\ group_owner = MaxUsers
    /\ students = [u \in Users |-> "approved"]
    /\ submissions = {}
    /\ exam_reminders =
           [i \in 1..(2 * CycleExams) |->
               [exam_id |-> ((i - 1) % CycleExams) + 1,
                reminder_percent |-> REMINDER_THRESHOLDS[((i - 1) \div CycleExams) + 1].percent,
                sent_at |-> (REMINDER_THRESHOLDS[((i - 1) \div CycleExams) + 1].percent
                             * Hours(MaxDuration * HoursPerDay)) \div 100]]
    /\ reminder_schedules = << >>
    /\ schedule_result = [e \in Exams |-> "none"]
    /\ logs = << [exam_id |-> CycleExams,
                   reminder |-> REMINDER_THRESHOLDS[2].label,
                   sent |-> MaxUsers - 1,
                   total |-> MaxUsers,
                   rate |-> 0] >>
    /\ faults = 0
    /\ task = [t \in Tasks |-> IdleTask]
    /\ scheduler = IdleScheduler

\* the engine is constructed when half of the duration of the exam is over
\* and the class has no student yet
InitRoster ==
    /\ now = Hours(MaxDuration * HoursPerDay) \div 2
    /\ running = FALSE
    /\ exams = [e \in 1..MaxExams |->
                   [creation_date |-> 0, date_format |-> "seconds",
                    duration_days |-> MaxDuration, is_active |-> TRUE]]
    /\ class_manager = NoManager
    /\ class_active = TRUE
    /\ group_owner = MaxUsers
    /\ students = [u \in Users |-> "none"]
    /\ submissions = {}
    /\ exam_reminders = << >>
    /\ reminder_schedules = << >>
    /\ schedule_result = [e \in Exams |-> "none"]
    /\ logs = << >>
    /\ faults = 0
    /\ task = [t \in Tasks |-> IdleTask]
    /\ scheduler = IdleScheduler

\* ---------------------------------------------------------- environment
\* the clock advances; it is read every TickTenths tenths of an hour
Tick ==
    /\ now + TickTenths <= MaxNow
    /\ now' = now + TickTenths
    /\ UNCHANGED << scheduler, running, dbvars, exam_reminders, reminder_schedules,
                    schedule_result, logs, faults, task >>

\* db.submit_exam_answer: inserts unless the student already submitted
SubmitExamAnswer(e, u) ==
    /\ << e, u >> \notin submissions
    /\ submissions' = submissions \cup {<< e, u >>}
    /\ UNCHANGED << scheduler, now, running, exams, class_manager, class_active, group_owner,
                    students, exam_reminders, reminder_schedules, schedule_result,
                    logs, faults, task >>

\* db.add_student(..., status='approved'): inserts, or updates the existing row
AddStudent(u) ==
    /\ students[u] # "approved"
    /\ students' = [students EXCEPT ![u] = "approved"]
    /\ UNCHANGED << scheduler, now, running, exams, class_manager, class_active, group_owner,
                    submissions, exam_reminders, reminder_schedules, schedule_result,
                    logs, faults, task >>

\* db.set_class_manager: refused for a user registered as a student;
\* m = NoManager removes the manager
SetClassManager(m) ==
    /\ m # class_manager
    /\ m # NoManager => students[m] = "none"
    /\ class_manager' = m
    /\ UNCHANGED << scheduler, now, running, exams, class_active, group_owner, students,
                    submissions, exam_reminders, reminder_schedules, schedule_result,
                    logs, faults, task >>

\* db.remove_group_owner
RemoveGroupOwner ==
    /\ group_owner # NoOwner
    /\ group_owner' = NoOwner
    /\ UNCHANGED << scheduler, now, running, exams, class_manager, class_active, students,
                    submissions, exam_reminders, reminder_schedules, schedule_result,
                    logs, faults, task >>

\* db.delete_exam: clears the active flag
DeleteExam(e) ==
    /\ exams[e].is_active
    /\ exams' = [exams EXCEPT ![e].is_active = FALSE]
    /\ UNCHANGED << scheduler, now, running, class_manager, class_active, group_owner, students,
                    submissions, exam_reminders, reminder_schedules, schedule_result,
                    logs, faults, task >>

\* ------------------------------------------------- legacy schedule rows
ScheduleRow(e, type, tenths) ==
    [exam_id |-> e, reminder_type |-> type, scheduled_time |-> tenths, is_sent |-> FALSE]

\* the rows of schedule_exam_reminders: day1, end (90%), tease (30%, 60%, 80%)
ScheduleRows(e) ==
    LET c == exams[e].creation_date
        d == Hours(exams[e].duration_days * HoursPerDay)
    IN  << ScheduleRow(e, "day1", c + Hours(HoursPerDay)),
           ScheduleRow(e, "end", c + (d * 9) \div 10),
           ScheduleRow(e, "tease", c + (d * 3) \div 10),
           ScheduleRow(e, "tease", c + (d * 6) \div 10),
           ScheduleRow(e, "tease", c + (d * 8) \div 10) >>

\* mutant: the test for materials is missing
NothingToScheduleNever(e) == FALSE

\* the duration_days <= 0 test of schedule_exam_reminders
NothingToSchedule(e) == exams[e].duration_days <= 0

\* db.schedule_exam_reminders(exam_id, duration_days), called once for an exam
ScheduleExamReminders(e) ==
    /\ schedule_result[e] = "none"
    /\ schedule_result' = [schedule_result EXCEPT ![e] = "True"]
    /\ reminder_schedules' =
           IF NothingToSchedule(e) THEN reminder_schedules
           ELSE reminder_schedules \o ScheduleRows(e)
    /\ UNCHANGED << scheduler, now, running, dbvars, exam_reminders, logs, faults, task >>

\* ------------------------------------------------ the legacy scheduler
\* the schedule_id of a row of reminder_schedules is its position
RECURSIVE OrderByScheduledTime(_)
\* ORDER BY r.scheduled_time ASC of a set of schedule ids
OrderByScheduledTime(S) ==
    IF S = {} THEN << >>
    ELSE LET first == CHOOSE i \in S : \A j \in S :
                          \/ reminder_schedules[i].scheduled_time
                                 < reminder_schedules[j].scheduled_time
                          \/ /\ reminder_schedules[i].scheduled_time
                                 = reminder_schedules[j].scheduled_time
                             /\ i <= j
         IN  << first >> \o OrderByScheduledTime(S \ {first})

\* mutant: the is_sent test of the query is missing
GetPendingRemindersAll ==
    OrderByScheduledTime({i \in 1..Len(reminder_schedules) :
        /\ reminder_schedules[i].exam_id \in Exams
        /\ reminder_schedules[i].scheduled_time <= now})

\* db.get_pending_reminders: the rows that are not sent and due, oldest first
GetPendingReminders ==
    OrderByScheduledTime({i \in 1..Len(reminder_schedules) :
        /\ reminder_schedules[i].exam_id \in Exams
        /\ ~reminder_schedules[i].is_sent
        /\ reminder_schedules[i].scheduled_time <= now})

\* ExamReminderScheduler.start, called on a scheduler whose loop is not
\* running: sets the flag and enters the loop
SchedulerStart ==
    /\ scheduler.pc \in {"none", "done"}
    /\ scheduler' = [scheduler EXCEPT !.running = TRUE, !.pc = "top"]
    /\ UNCHANGED << now, running, dbvars, exam_reminders, reminder_schedules,
                    schedule_result, logs, faults, task >>

\* ExamReminderScheduler.stop
SchedulerStop ==
    /\ scheduler.running
    /\ scheduler' = [scheduler EXCEPT !.running = FALSE]
    /\ UNCHANGED << now, running, dbvars, exam_reminders, reminder_schedules,
                    schedule_result, logs, faults, task >>

\* `while self.running`, then the query of process_pending_reminders
SchedulerPoll ==
    /\ scheduler.pc = "top"
    /\ scheduler' = IF scheduler.running
                    THEN [scheduler EXCEPT !.pc = "send", !.queue = GetPendingReminders]
                    ELSE [scheduler EXCEPT !.pc = "done"]
    /\ UNCHANGED << now, running, dbvars, exam_reminders, reminder_schedules,
                    schedule_result, logs, faults, task >>

\* send_reminder on the next row of the pass: it returns whether the send
\* went through (ok) or raised inside (~ok)
SendReminder(ok) ==
    /\ scheduler.pc = "send"
    /\ scheduler.queue # << >>
    /\ scheduler' = [scheduler EXCEPT
           !.pc = "mark",
           !.handled = Append(scheduler.handled,
                              [schedule_id |-> Head(scheduler.queue), ok |-> ok])]
    /\ UNCHANGED << now, running, dbvars, exam_reminders, reminder_schedules,
                    schedule_result, logs, faults, task >>

\* db.mark_reminder_sent of the row that send_reminder returned from
SchedulerMarkReminderSent ==
    /\ scheduler.pc = "mark"
    /\ reminder_schedules' =
           [reminder_schedules EXCEPT ![Head(scheduler.queue)].is_sent = TRUE]
    /\ scheduler' = [scheduler EXCEPT !.pc = "send", !.queue = Tail(scheduler.queue)]
    /\ UNCHANGED << now, running, dbvars, exam_reminders, schedule_result,
                    logs, faults, task >>

\* db.mark_reminder_sent when its UPDATE fails: it returns False, which
\* process_pending_reminders does not look at
SchedulerMarkReminderSentFailed ==
    /\ scheduler.pc = "mark"
    /\ faults < MaxFaults
    /\ faults' = faults + 1
    /\ scheduler' = [scheduler EXCEPT !.pc = "send", !.queue = Tail(scheduler.queue)]
    /\ UNCHANGED << now, running, dbvars, exam_reminders, reminder_schedules,
                    schedule_result, logs, task >>

\* the for loop of process_pending_reminders has ended: asyncio.sleep(300)
SchedulerSleep ==
    /\ scheduler.pc = "send"
    /\ scheduler.queue = << >>
    /\ scheduler' = [scheduler EXCEPT !.pc = "sleep"]
    /\ UNCHANGED << now, running, dbvars, exam_reminders, reminder_schedules,
                    schedule_result, logs, faults, task >>

\* the sleep of the scheduler is over
SchedulerWake ==
    /\ scheduler.pc = "sleep"
    /\ scheduler' = [scheduler EXCEPT !.pc = "top"]
    /\ UNCHANGED << now, running, dbvars, exam_reminders, reminder_schedules,
                    schedule_result, logs, faults, task >>

\* ------------------------------------------------------ the polling loop
\* mutant: the test of the flag is missing
AlreadyRunningNever == FALSE

\* `if self.running` of start()
AlreadyRunning == running

\* start(): returns at once when already running, else sets the flag and
\* creates the loop task
Start ==
    IF AlreadyRunning
    THEN UNCHANGED vars
    ELSE /\ \E t \in Tasks :
             /\ task[t].pc = "none"
             /\ \A o \in Tasks : task[o].pc = "none" => t = "t1" \/ o # "t1"
             /\ task' = [task EXCEPT ![t].pc = "top"]
         /\ running' = TRUE
         /\ UNCHANGED << scheduler, now, dbvars, exam_reminders, reminder_schedules,
                         schedule_result, logs, faults >>

\* stop(): clears the flag
Stop ==
    /\ running
    /\ running' = FALSE
    /\ UNCHANGED << scheduler, now, dbvars, exam_reminders, reminder_schedules,
                    schedule_result, logs, faults, task >>

\* _reminder_loop: `while self.running`, then the query of _check_active_exams
LoopTop(t) ==
    /\ task[t].pc = "top"
    /\ task' = IF running
               THEN [task EXCEPT ![t].pc = "cycle", ![t].queue = GetActiveExams]
               ELSE [task EXCEPT ![t].pc = "done"]
    /\ UNCHANGED << scheduler, now, running, dbvars, exam_reminders, reminder_schedules,
                    schedule_result, logs, faults >>

\* mutant: the failure of the query ends the loop task
AfterQueryFailedExit(l) == [l EXCEPT !.pc = "done"]

\* the locals after _get_active_exams caught the exception of its query and
\* returned []: the for loop of _check_active_exams has nothing to do
AfterQueryFailed(l) == [l EXCEPT !.pc = "cycle", !.queue = << >>]

\* _reminder_loop when the query of _get_active_exams fails
LoopTopQueryFailed(t) ==
    /\ task[t].pc = "top"
    /\ running
    /\ faults < MaxFaults
    /\ faults' = faults + 1
    /\ task' = [task EXCEPT ![t] = AfterQueryFailed(task[t])]
    /\ UNCHANGED << scheduler, now, running, dbvars, exam_reminders, reminder_schedules,
                    schedule_result, logs >>

\* mutant: the students who submitted are not taken out
PendingStudentsAll(e) == GetClassStudents

\* pending_students of _process_exam_reminders: the approved students, in
\* roster order, without those who submitted
PendingStudents(e) ==
    LET sub == GetSubmittedStudents(e)
        NotSubmitted(u) == u \notin sub
    IN  SelectSeq(GetClassStudents, NotSubmitted)

\* mutant: the `if not pending_students` return is missing
ShouldDispatchIgnorePending(studs, pend, r) ==
    /\ studs # << >>
    /\ r # NoReminder

\* the three tests of _process_exam_reminders that decide whether the pass
\* dispatches: `if not students`, `if not pending_students`, `if reminder_to_send`
ShouldDispatch(studs, pend, r) ==
    /\ studs # << >>
    /\ pend # << >>
    /\ r # NoReminder

\* which return of _process_exam_reminders a pass without dispatch took
PassOutcome(studs, pend, r) ==
    IF studs = << >> THEN "no_students"
    ELSE IF pend = << >> THEN "all_submitted"
    ELSE IF r = NoReminder THEN "no_reminder"
    ELSE "dispatch"

\* _process_exam_reminders on the next exam of the cycle, up to the call of
\* _send_intelligent_reminders; r is what _get_reminder_to_send returned
ProcessExamWith(t, r) ==
    LET e == Head(task[t].queue)
        studs == GetClassStudents
        pend == PendingStudents(e)
    IN  task' = IF ShouldDispatch(studs, pend, r)
                THEN [task EXCEPT ![t].pc = "send",
                                  ![t].exam = e,
                                  ![t].todo = pend,
                                  ![t].pending_students = pend,
                                  ![t].submitted_count = Cardinality(GetSubmittedStudents(e)),
                                  ![t].total_students = Len(studs),
                                  ![t].reminder = r,
                                  ![t].last_pass = "dispatch"]
                ELSE [task EXCEPT ![t].queue = Tail(task[t].queue),
                                  ![t].last_pass = PassOutcome(studs, pend, r)]

ProcessExam(t) ==
    /\ task[t].pc = "cycle"
    /\ task[t].queue # << >>
    /\ ProcessExamWith(t, GetReminderToSend(Head(task[t].queue)))
    /\ UNCHANGED << scheduler, now, running, dbvars, exam_reminders, reminder_schedules,
                    schedule_result, logs, faults >>

\* the same pass when the ledger lookup of _is_reminder_sent fails
ProcessExamLookupFailed(t) ==
    /\ task[t].pc = "cycle"
    /\ task[t].queue # << >>
    /\ faults < MaxFaults
    /\ faults' = faults + 1
    /\ ProcessExamWith(t, GetReminderToSendLookupFailed(Head(task[t].queue)))
    /\ UNCHANGED << scheduler, now, running, dbvars, exam_reminders, reminder_schedules,
                    schedule_result, logs >>

\* mutant: the exception leaves the for loop of _check_active_exams and is
\* caught there: the rest of the cycle is skipped
AfterRaiseAbortCycle(l) == [l EXCEPT !.queue = << >>, !.last_pass = "error"]

\* the locals after the `except Exception` of _process_exam_reminders caught
\* an exception of the pass: the for loop goes on to the next exam
AfterRaise(l) == [l EXCEPT !.queue = Tail(l.queue), !.last_pass = "error"]

\* the pass over the next exam raises before its first message, in
\* _process_exam_reminders or in the queries that open
\* _send_intelligent_reminders
ProcessExamRaised(t) ==
    /\ task[t].pc = "cycle"
    /\ task[t].queue # << >>
    /\ faults < MaxFaults
    /\ faults' = faults + 1
    /\ task' = [task EXCEPT ![t] = AfterRaise(task[t])]
    /\ UNCHANGED << scheduler, now, running, dbvars, exam_reminders, reminder_schedules,
                    schedule_result, logs >>

\* mutant: the owner check is missing
IsStaffManagerOnly(u) == IsUserManager(u)

\* `if is_manager or is_owner` of _send_intelligent_reminders
IsStaff(u) == IsUserManager(u) \/ IsUserOwner(u)

\* one iteration of the recipient loop for a manager or owner: `continue`
SkipStaff(t) ==
    /\ task[t].pc = "send"
    /\ task[t].todo # << >>
    /\ IsStaff(Head(task[t].todo))
    /\ task' = [task EXCEPT ![t].todo = Tail(task[t].todo),
                            ![t].skipped = task[t].skipped \cup {Head(task[t].todo)}]
    /\ UNCHANGED << scheduler, now, running, dbvars, exam_reminders, reminder_schedules,
                    schedule_result, logs, faults >>

\* mutant: a failed send is not caught inside the loop: it ends
\* _send_intelligent_reminders and the pass over this exam
AfterSendAbort(l, u, ok) ==
    IF ok
    THEN [l EXCEPT !.todo = Tail(l.todo),
                   !.attempted = l.attempted \cup {u},
                   !.success_count = l.success_count + 1]
    ELSE [IdleTask EXCEPT !.pc = "cycle", !.queue = Tail(l.queue),
                          !.last_pass = "dispatch"]

\* mutant: the recipient loop gives up when the flag has been cleared
AfterSendStopped(l, u, ok) ==
    IF running
    THEN [l EXCEPT !.todo = Tail(l.todo),
                   !.attempted = l.attempted \cup {u},
                   !.failed = IF ok THEN l.failed ELSE l.failed \cup {u},
                   !.success_count = IF ok THEN l.success_count + 1 ELSE l.success_count]
    ELSE [IdleTask EXCEPT !.pc = "top"]

\* the locals after bot.send_message to u returned (ok) or raised (~ok): the
\* exception is caught inside the loop and the loop goes on
AfterSend(l, u, ok) ==
    [l EXCEPT !.todo = Tail(l.todo),
              !.attempted = l.attempted \cup {u},
              !.failed = IF ok THEN l.failed ELSE l.failed \cup {u},
              !.success_count = IF ok THEN l.success_count + 1 ELSE l.success_count]

\* mutant: the message goes to the chat of the group
ChatIdGroup(student) == GroupId

\* the chat a reminder goes to: user_id = student['user_id'], the first
\* argument of bot.send_message
ChatId(student) == student

\* one iteration of the recipient loop for a student: the message is sent
SendMessage(t, ok) ==
    /\ task[t].pc = "send"
    /\ task[t].todo # << >>
    /\ ~IsStaff(Head(task[t].todo))
    /\ task' = [task EXCEPT ![t] = AfterSend(task[t], ChatId(Head(task[t].todo)), ok)]
    /\ UNCHANGED << scheduler, now, running, dbvars, exam_reminders, reminder_schedules,
                    schedule_result, logs, faults >>

\* mutant: a plain INSERT into a table without the primary key
InsertPlain(rows, row) == Append(rows, row)

\* INSERT OR REPLACE INTO exam_reminders: the primary key (exam_id,
\* reminder_percent) makes the new row replace a row with the same key
InsertOrReplace(rows, row) ==
    Append(SelectRows(rows, << row.exam_id, row.reminder_percent >>), row)

\* _mark_reminder_sent, called when the recipient loop has ended
MarkReminderSent(t) ==
    /\ task[t].pc = "send"
    /\ task[t].todo = << >>
    /\ exam_reminders' = InsertOrReplace(exam_reminders,
           [exam_id |-> task[t].exam,
            reminder_percent |-> task[t].reminder.percent,
            sent_at |-> now])
    /\ task' = [task EXCEPT ![t].pc = "log"]
    /\ UNCHANGED << scheduler, now, running, dbvars, reminder_schedules, schedule_result,
                    logs, faults >>

\* mutant: the failed write is committed all the same
WriteFailedCommitted(rows, row) ==
    Append(SelectRows(rows, << row.exam_id, row.reminder_percent >>), row)

\* the table after _mark_reminder_sent raised before its commit: unchanged
WriteFailed(rows, row) == rows

\* _mark_reminder_sent when the database fails: the exception is logged and
\* swallowed, and _send_intelligent_reminders goes on to add_log
MarkReminderSentFailed(t) ==
    /\ task[t].pc = "send"
    /\ task[t].todo = << >>
    /\ faults < MaxFaults
    /\ faults' = faults + 1
    /\ exam_reminders' = WriteFailed(exam_reminders,
           [exam_id |-> task[t].exam,
            reminder_percent |-> task[t].reminder.percent,
            sent_at |-> now])
    /\ task' = [task EXCEPT ![t].pc = "log"]
    /\ UNCHANGED << scheduler, now, running, dbvars, reminder_schedules, schedule_result, logs >>

\* submission_rate formatted with one decimal: tenths of a percent
SubmissionRate(submitted_count, total_students) ==
    (2 * 1000 * submitted_count + total_students) \div (2 * total_students)

\* the details of the smart_reminder_sent audit entry
LogEntry(l) ==
    [exam_id |-> l.exam,
     reminder |-> l.reminder.label,
     sent |-> l.success_count,
     total |-> Len(l.pending_students),
     rate |-> SubmissionRate(l.submitted_count, l.total_students)]

\* db.add_log at the end of _send_intelligent_reminders; the pass over this
\* exam is over and the cycle goes on to the next exam
AddLog(t) ==
    /\ task[t].pc = "log"
    /\ logs' = << LogEntry(task[t]) >>
    /\ task' = [task EXCEPT ![t] = [IdleTask EXCEPT !.pc = "cycle",
                                                     !.queue = Tail(task[t].queue),
                                                     !.last_pass = "dispatch"]]
    /\ UNCHANGED << scheduler, now, running, dbvars, exam_reminders, reminder_schedules,
                    schedule_result, faults >>

\* the for loop of _check_active_exams has ended: asyncio.sleep(check_interval)
EndCycle(t) ==
    /\ task[t].pc = "cycle"
    /\ task[t].queue = << >>
    /\ task' = [task EXCEPT ![t].pc = "sleep", ![t].last_pass = "none"]
    /\ UNCHANGED << scheduler, now, running, dbvars, exam_reminders, reminder_schedules,
                    schedule_result, logs, faults >>

\* the sleep of check_interval is over; the interval is shorter than the
\* step of the clock, so two cycles can read the same time
Wake(t) ==
    /\ task[t].pc = "sleep"
    /\ Seconds(CheckInterval) <= TickTenths
    /\ task' = [task EXCEPT ![t].pc = "top"]
    /\ UNCHANGED << scheduler, now, running, dbvars, exam_reminders, reminder_schedules,
                    schedule_result, logs, faults >>

\* -------------------------------------------------------- specifications
Environment ==
    \/ Tick
    \/ \E e \in Exams, u \in Users : SubmitExamAnswer(e, u)
    \/ \E u \in Users : AddStudent(u)
    \/ \E m \in Users \cup {NoManager} : SetClassManager(m)
    \/ RemoveGroupOwner
    \/ \E e \in Exams : DeleteExam(e)

\* the clock and the submissions of the first student
EnvironmentExams ==
    \/ Tick
    \/ \E e \in Exams : SubmitExamAnswer(e, 1)

Engine ==
    \/ Start
    \/ \E t \in Tasks : LoopTop(t)
    \/ \E t \in Tasks : ProcessExam(t)
    \/ \E t \in Tasks : SkipStaff(t)
    \/ \E t \in Tasks, ok \in BOOLEAN : SendMessage(t, ok)
    \/ \E t \in Tasks : MarkReminderSent(t)
    \/ \E t \in Tasks : AddLog(t)
    \/ \E t \in Tasks : EndCycle(t)
    \/ \E t \in Tasks : Wake(t)

\* the reminder engine with a working database, one loop task
Next == Environment \/ Engine

Spec == Init /\ [][Next]_vars

\* ... and with the legacy scheduling of reminders at exam creation
NextLegacy == Next \/ \E e \in Exams : ScheduleExamReminders(e)

SpecLegacy == Init /\ [][NextLegacy]_vars

\* ... and with failing ledger lookups
NextFault == Next \/ \E t \in Tasks : ProcessExamLookupFailed(t)

SpecFault == Init /\ [][NextFault]_vars

\* ... and with failing ledger writes
NextWriteFault == Next \/ \E t \in Tasks : MarkReminderSentFailed(t)

SpecWriteFault == Init /\ [][NextWriteFault]_vars

\* ... and with several exams in a cycle, whose passes can raise
NextCycle == EnvironmentExams \/ Engine \/ \E t \in Tasks : ProcessExamRaised(t)

SpecCycle == InitCycle /\ [][NextCycle]_vars

\* the steps of one loop task
TaskStep(t) ==
    \/ LoopTop(t)
    \/ ProcessExam(t)
    \/ SkipStaff(t)
    \/ \E ok \in BOOLEAN : SendMessage(t, ok)
    \/ MarkReminderSent(t)
    \/ AddLog(t)
    \/ EndCycle(t)
    \/ Wake(t)

\* ... and with stop(); the event loop runs every task that can go on, a
\* sleep ends and a call of the transport returns or raises
NextLifecycle == EnvironmentExams \/ Engine \/ Stop

SpecLifecycle ==
    InitLifecycle /\ [][NextLifecycle]_vars /\ \A t \in Tasks : WF_vars(TaskStep(t))

\* ... with stop() and failing queries of the active exams
NextQueryFault == NextLifecycle \/ \E t \in Tasks : LoopTopQueryFailed(t)

SpecQueryFault == InitLifecycle /\ [][NextQueryFault]_vars

\* ... with stop() and several exams in a cycle
SpecShutdown == InitShutdown /\ [][NextLifecycle]_vars

\* ... with a roster that is filled after a threshold was reached
SpecRoster == InitRoster /\ [][Next]_vars

\* the legacy scheduler over the rows of schedule_exam_reminders, with
\* failing updates of is_sent
NextScheduler ==
    \/ Tick
    \/ \E e \in Exams : ScheduleExamReminders(e)
    \/ SchedulerStart
    \/ SchedulerStop
    \/ SchedulerPoll
    \/ \E ok \in BOOLEAN : SendReminder(ok)
    \/ SchedulerMarkReminderSent
    \/ SchedulerMarkReminderSentFailed
    \/ SchedulerSleep
    \/ SchedulerWake

SpecScheduler == InitLifecycle /\ [][NextScheduler]_vars

\* ======================================================================
\*                          the claims of the spec
\* ======================================================================

\* what the claims speak of, stated without the operators of the engine
Approved == {u \in Users : students[u] = "approved"}

Submitted(e) == {u \in Users : << e, u >> \in submissions}

\* the pending students of an exam
PendingSet(e) == Approved \ Submitted(e)

\* the elapsed time of the exam is at least p percent of its duration
Reached(e, p) ==
    (now - exams[e].creation_date) * 100 >= p * exams[e].duration_days * HoursPerDay * 10

HasEntry(e, p) == \E i \in 1..Len(exam_reminders) :
    exam_reminders[i].exam_id = e /\ exam_reminders[i].reminder_percent = p

\* the thresholds reached and not in the ledger
Unfired(e) ==
    {p \in {50, 70, 90} : exams[e].duration_days > 0 /\ Reached(e, p) /\ ~HasEntry(e, p)}

\* task t is inside a dispatch of _send_intelligent_reminders
InBatch(t) == task[t].pc = "send"
Recorded(t) == task[t].pc = "log"

\* the step is a pass of task t over the next exam of its cycle
PassStep(t) ==
    /\ task[t].pc = "cycle"
    /\ task[t].queue # << >>
    /\ task'[t] # task[t]

\* the step is the ledger write that ends the batch of task t
MarkStep(t) == task[t].pc = "send" /\ task'[t].pc = "log"

C2_AscendingOrder ==
    /\ \A e \in Exams :
        /\ HasEntry(e, 70) => HasEntry(e, 50)
        /\ HasEntry(e, 90) => HasEntry(e, 70)
    /\ \A t \in Tasks :
        (InBatch(t) \/ Recorded(t)) =>
            \A p \in {50, 70, 90} :
                p < task[t].reminder.percent => HasEntry(task[t].exam, p)

\* the first poll came when the exam was past 90%: only threshold 50 fired
C2_Witness ==
    \E e \in Exams :
        /\ Len(exam_reminders) = 1
        /\ exam_reminders[1].exam_id = e
        /\ exam_reminders[1].reminder_percent = 50
        /\ (exam_reminders[1].sent_at - exams[e].creation_date) * 100
               >= 90 * exams[e].duration_days * HoursPerDay * 10

\* ---------------------------------------------------------------------
\* C3: a pass over an exam that has pending students and an unfired reached
\* threshold dispatches for the lowest such threshold, and the pass adds
\* exactly one entry to the ledger, for that threshold.
C3_OneThresholdPerPass ==
    [][\A t \in Tasks :
        /\ PassStep(t) =>
              LET e == Head(task[t].queue) IN
              (Unfired(e) # {} /\ PendingSet(e) # {}) =>
                  /\ task'[t].pc = "send"
                  /\ task'[t].exam = e
                  /\ task'[t].reminder.percent = Min(Unfired(e))
                  /\ exam_reminders' = exam_reminders
        /\ (InBatch(t) /\ ~MarkStep(t)) => exam_reminders' = exam_reminders
        /\ MarkStep(t) =>
              /\ Len(exam_reminders') = Len(exam_reminders) + 1
              /\ CountRowsIn(exam_reminders', task[t].exam, task[t].reminder.percent) = 1
              /\ \A p \in {50, 70, 90} :
                     p # task[t].reminder.percent =>
                         CountRowsIn(exam_reminders', task[t].exam, p)
                             = CountRows(task[t].exam, p)
        /\ Recorded(t) => exam_reminders' = exam_reminders
      ]_vars

\* a pass that found all three thresholds reached has recorded only one
C3_Witness ==
    \E t \in Tasks :
        /\ Recorded(t)
        /\ task[t].reminder.percent = 50
        /\ Reached(task[t].exam, 90)
        /\ Len(exam_reminders) = 1

C5_ZeroDuration ==
    \A e \in Exams :
        exams[e].duration_days = 0 =>
            /\ \A i \in 1..Len(exam_reminders) : exam_reminders[i].exam_id # e
            /\ \A i \in 1..Len(reminder_schedules) : reminder_schedules[i].exam_id # e
            /\ \A i \in 1..Len(logs) : logs[i].exam_id # e
            /\ \A t \in Tasks :
                /\ (InBatch(t) \/ Recorded(t)) => task[t].exam # e
                /\ \A i \in 1..Len(task[t].queue) : task[t].queue[i] # e

\* an exam of duration 0 with pending students was scheduled and polled
\* half a day after its creation
C5_Witness ==
    \E e \in Exams, t \in Tasks :
        /\ exams[e].duration_days = 0
        /\ exams[e].is_active
        /\ schedule_result[e] = "True"
        /\ PendingSet(e) # {}
        /\ task[t].pc = "cycle"
        /\ now >= 120

\* ---------------------------------------------------------------------
\* C6: the recipient loop always ends in the ledger write: whatever sends
\* failed, the task leaves the batch with exactly one entry for its
\* (exam, threshold) in the ledger.
C6_LedgerAfterBatch ==
    [][\A t \in Tasks :
        (InBatch(t) /\ ~InBatch(t)') =>
            /\ Recorded(t)'
            /\ CountRowsIn(exam_reminders', task[t].exam, task[t].reminder.percent) = 1
      ]_vars

\* every send of a batch of two failed and the entry is written
C6_Witness ==
    \E t \in Tasks :
        /\ Recorded(t)
        /\ Cardinality(task[t].attempted) = 2
        /\ task[t].failed = task[t].attempted
        /\ CountRows(task[t].exam, task[t].reminder.percent) = 1

\* ---------------------------------------------------------------------
\* C7: the ratio sent/total of the audit entry equals (M - N) / M, with M the
\* number of recipients a send was attempted for and N the number of failed
\* sends.
C7_ReportedRatio ==
    [][\A t \in Tasks :
        (Recorded(t) /\ ~Recorded(t)' /\ Cardinality(task[t].attempted) > 0) =>
            LET M == Cardinality(task[t].attempted)
                N == Cardinality(task[t].failed)
                entry == logs'[Len(logs')]
            IN  entry.sent * M = (M - N) * entry.total
      ]_vars

\* ---------------------------------------------------------------------
\* the case of C8: empty ledger, no approved student has submitted, elapsed
\* time at least 50% and below 70%
C8Case(e) ==
    /\ \A p \in {50, 70, 90} : ~HasEntry(e, p)
    /\ Approved \cap Submitted(e) = {}
    /\ exams[e].duration_days > 0
    /\ Reached(e, 50)
    /\ ~Reached(e, 70)

\* C8 as stated: polled in that case with k >= 1 approved students, the pass
\* fires 50, attempts k messages and leaves 70 and 90 unfired.
C8_Original ==
    [][\A t \in Tasks :
        /\ (PassStep(t) /\ C8Case(Head(task[t].queue)) /\ Approved # {}) =>
              /\ task'[t].pc = "send"
              /\ task'[t].reminder.percent = 50
              /\ Len(task'[t].pending_students) = Cardinality(Approved)
        /\ (MarkStep(t) /\ task[t].reminder.percent = 50
                /\ Len(task[t].pending_students) = task[t].total_students
                /\ ~Reached(task[t].exam, 70)) =>
              /\ Cardinality(task[t].attempted) = task[t].total_students
              /\ HasEntry(task[t].exam, 50)'
              /\ ~HasEntry(task[t].exam, 70)'
              /\ ~HasEntry(task[t].exam, 90)'
      ]_vars

\* C8 (amended): with k >= 1, the pass fires 50 (label of 50%) for all k
\* students, attempts a message for each of them who is not manager or owner
\* at their turn, skips the others, and leaves 70 and 90 unfired.
C8_Amended ==
    [][\A t \in Tasks :
        /\ (PassStep(t) /\ C8Case(Head(task[t].queue)) /\ Approved # {}) =>
              /\ task'[t].pc = "send"
              /\ task'[t].reminder = [percent |-> 50, label |-> "first (50%)"]
              /\ Len(task'[t].pending_students) = Cardinality(Approved)
              /\ {task'[t].pending_students[i] :
                      i \in 1..Len(task'[t].pending_students)} = Approved
        /\ \A u \in Users :
              /\ (u \in task'[t].attempted /\ u \notin task[t].attempted) =>
                     (class_manager # u /\ group_owner # u)
              /\ (u \in task'[t].skipped /\ u \notin task[t].skipped) =>
                     (class_manager = u \/ group_owner = u)
        /\ (MarkStep(t) /\ task[t].reminder.percent = 50
                /\ Len(task[t].pending_students) = task[t].total_students
                /\ ~Reached(task[t].exam, 70)) =>
              /\ task[t].attempted \cup task[t].skipped =
                     {task[t].pending_students[i] :
                         i \in 1..Len(task[t].pending_students)}
              /\ task[t].attempted \cap task[t].skipped = {}
              /\ HasEntry(task[t].exam, 50)'
              /\ ~HasEntry(task[t].exam, 70)'
              /\ ~HasEntry(task[t].exam, 90)'
      ]_vars

\* two students, none of them staff: threshold 50 recorded after two attempts
C8_Witness ==
    \E t \in Tasks :
        /\ Recorded(t)
        /\ task[t].reminder.percent = 50
        /\ task[t].total_students = 2
        /\ Cardinality(task[t].attempted) = 2
        /\ ~Reached(task[t].exam, 70)
        /\ Len(exam_reminders) = 1

C10_LedgerKeyUnique ==
    \A i, j \in 1..Len(exam_reminders) :
        (/\ exam_reminders[i].exam_id = exam_reminders[j].exam_id
         /\ exam_reminders[i].reminder_percent = exam_reminders[j].reminder_percent)
            => i = j

\* a threshold was dispatched and recorded a second time
C10_Witness ==
    \E t \in Tasks :
        /\ Recorded(t)
        /\ faults > 0
        /\ logs # << >>
        /\ logs[Len(logs)].exam_id = task[t].exam
        /\ logs[Len(logs)].reminder = task[t].reminder.label

\* ======================================================================
\*             ledger, recipients, failures and the life of the loop
\* ======================================================================

\* the elements of a sequence
Range(q) == {q[i] : i \in 1..Len(q)}

\* the chats that get a message in this step of task t
NewlyMessaged(t) == task'[t].attempted \ task[t].attempted

\* the step is a pass of task t in which the database or the data failed
FaultStep == faults' # faults

\* ---------------------------------------------------------------------
\* C11: the ledger changes only in the write that ends a dispatch of the
\* engine, which adds the entry of the dispatched (exam, threshold); an entry
\* that exists stays as it is: it is never deleted and its sent_at never
\* changes.
C11_EntryImmutable ==
    [][/\ \A i \in 1..Len(exam_reminders) :
            \E j \in 1..Len(exam_reminders') : exam_reminders'[j] = exam_reminders[i]
       /\ exam_reminders' # exam_reminders =>
            \E t \in Tasks :
                /\ MarkStep(t)
                /\ task[t].todo = << >>
                /\ \A j \in 1..Len(exam_reminders') :
                       exam_reminders'[j] \notin Range(exam_reminders) =>
                           /\ exam_reminders'[j].exam_id = task[t].exam
                           /\ exam_reminders'[j].reminder_percent = task[t].reminder.percent
      ]_vars

\* ---------------------------------------------------------------------
\* C12: every message of a dispatch goes to the user id of one of the pending
\* students of the dispatch, never to the chat of the group.
C12_IndividualOnly ==
    [][\A t \in Tasks : \A c \in NewlyMessaged(t) :
            /\ c # GroupId
            /\ c \in Users
            /\ c \in Range(task[t].pending_students)
      ]_vars

\* a dispatch is under way: one student has been messaged, another is to come
C12_Witness ==
    \E t \in Tasks :
        /\ InBatch(t)
        /\ task[t].attempted # {}
        /\ task[t].todo # << >>
        /\ GroupId \notin task[t].attempted

C14_NeverReturnsFired ==
    [][\A t \in Tasks :
        (PassStep(t) /\ PendingSet(Head(task[t].queue)) # {}) =>
            LET e == Head(task[t].queue) IN
            /\ Unfired(e) # {} =>
                  /\ task'[t].pc = "send"
                  /\ task'[t].reminder.percent = Min(Unfired(e))
            /\ Unfired(e) = {} => task'[t].pc = "cycle"
            /\ task'[t].pc = "send" => ~HasEntry(e, task'[t].reminder.percent)
      ]_vars

\* ---------------------------------------------------------------------
\* the newest audit entry is of a dispatch of threshold p for exam e
LoggedDispatch(e, p) ==
    /\ logs # << >>
    /\ logs[Len(logs)].exam_id = e
    /\ \E i \in 1..Len(REMINDER_THRESHOLDS) :
          /\ REMINDER_THRESHOLDS[i].percent = p
          /\ REMINDER_THRESHOLDS[i].label = logs[Len(logs)].reminder

\* C15: a dispatch whose ledger write fails leaves no entry for its threshold,
\* and the next pass over the exam, while it has pending students, dispatches
\* the same threshold again.
C15_WriteFailureRetried ==
    [][\A t \in Tasks :
        /\ (MarkStep(t) /\ FaultStep) =>
              ~(\E j \in 1..Len(exam_reminders') :
                    /\ exam_reminders'[j].exam_id = task[t].exam
                    /\ exam_reminders'[j].reminder_percent = task[t].reminder.percent)
        /\ \A p \in {50, 70, 90} :
              (/\ PassStep(t)
               /\ faults > 0
               /\ LoggedDispatch(Head(task[t].queue), p)
               /\ ~HasEntry(Head(task[t].queue), p)
               /\ PendingSet(Head(task[t].queue)) # {}) =>
                  /\ task'[t].pc = "send"
                  /\ task'[t].exam = Head(task[t].queue)
                  /\ task'[t].reminder.percent = p
      ]_vars

\* the write of threshold 50 failed, and a later pass is sending it again
C15_Witness ==
    \E t \in Tasks :
        /\ InBatch(t)
        /\ faults > 0
        /\ task[t].reminder.percent = 50
        /\ LoggedDispatch(task[t].exam, 50)
        /\ ~HasEntry(task[t].exam, 50)
        /\ task[t].attempted # {}

\* ---------------------------------------------------------------------
\* C16: a pass that raises changes nothing but the position of the cycle: the
\* task stays in the cycle with the remaining exams queued, it does not
\* leave the loop, and the pass over a remaining exam works as ever.
C16_ExamIsolation ==
    [][\A t \in Tasks :
        /\ (PassStep(t) /\ FaultStep) =>
              /\ task'[t].pc = "cycle"
              /\ task'[t].queue = Tail(task[t].queue)
              /\ exam_reminders' = exam_reminders
        /\ task'[t].pc # "done"
        /\ (PassStep(t) /\ ~FaultStep /\ task[t].last_pass = "error") =>
              LET e == Head(task[t].queue) IN
              (/\ exams[e].date_format = "seconds"
               /\ Unfired(e) # {}
               /\ PendingSet(e) # {}) =>
                  /\ task'[t].pc = "send"
                  /\ task'[t].exam = e
      ]_vars

\* the pass over exam 1 raised in a cycle that goes on to send threshold 70
\* for exam 2: exam 1 has pending students and is still without its threshold
\* 50, which exam 2 got in an earlier cycle
C16_Witness ==
    \E t \in Tasks :
        /\ InBatch(t)
        /\ task[t].exam = 2
        /\ task[t].reminder.percent = 70
        /\ faults = 1
        /\ exams[1].date_format = "seconds"
        /\ PendingSet(1) # {}
        /\ ~HasEntry(1, 50)
        /\ HasEntry(2, 50)

\* ---------------------------------------------------------------------
\* C17: once stop() has cleared the flag, every loop task that was created
\* ends, and a task at the top of its loop with the flag cleared starts no
\* cycle.
C17_StopTerminates ==
    /\ \A t \in Tasks :
          (task[t].pc \notin {"none", "done"} /\ ~running) ~> (task[t].pc = "done")
    /\ [][\A t \in Tasks :
            (task[t].pc = "top" /\ ~running /\ task'[t] # task[t]) =>
                task'[t].pc = "done"]_vars

\* ---------------------------------------------------------------------
\* C18: at most one loop task is alive, and no two tasks are inside a
\* polling cycle at the same time.
C18_SingleTask ==
    /\ Cardinality({t \in Tasks : task[t].pc \notin {"none", "done"}}) <= 1
    /\ Cardinality({t \in Tasks : task[t].pc \in {"cycle", "send", "log"}}) <= 1

\* ---------------------------------------------------------------------
\* the exam is archived, expired or younger than the grace period
Ineligible(e) ==
    \/ ~exams[e].is_active
    \/ now - exams[e].creation_date > exams[e].duration_days * HoursPerDay * 10
    \/ now - exams[e].creation_date < GraceHours * 10

\* C19: the exams of a cycle are those that were active, not expired and
\* older than 2 hours at its query; passes, messages and ledger writes of the
\* cycle are for these exams only.
C19_EligibleOnly ==
    [][\A t \in Tasks :
        /\ (task[t].pc = "top" /\ task'[t].pc = "cycle") =>
              \A e \in Range(task'[t].queue) : ~Ineligible(e)
        /\ (task[t].pc # "top" /\ task'[t].queue # task[t].queue) =>
              /\ task[t].queue # << >>
              /\ task'[t].queue = Tail(task[t].queue)
        /\ (PassStep(t) /\ task'[t].pc = "send") => task'[t].exam = Head(task[t].queue)
        /\ (InBatch(t) \/ Recorded(t)) =>
              /\ task[t].queue # << >>
              /\ task[t].exam = Head(task[t].queue)
        /\ NewlyMessaged(t) # {} => InBatch(t)
        /\ MarkStep(t) =>
              \A j \in 1..Len(exam_reminders') :
                  exam_reminders'[j] \notin Range(exam_reminders) =>
                      exam_reminders'[j].exam_id = task[t].exam
        /\ exam_reminders' # exam_reminders => \E w \in Tasks : MarkStep(w)
      ]_vars

\* a cycle that queried at the creation time of an active exam with pending
\* students found no exam to process
C19_Witness ==
    \E t \in Tasks, e \in Exams :
        /\ task[t].pc = "cycle"
        /\ task[t].queue = << >>
        /\ task[t].last_pass = "none"
        /\ now = exams[e].creation_date
        /\ exams[e].is_active
        /\ exams[e].duration_days > 0
        /\ PendingSet(e) # {}

\* ---------------------------------------------------------------------
\* C20: the pass over an exam whose creation date strptime cannot read ends
\* without dispatch: no message, no ledger entry, no audit entry, and the
\* cycle goes on with the exams that remain; no dispatch ever runs for such
\* an exam.
C20_UnparseableDate ==
    [][\A t \in Tasks :
        /\ (PassStep(t) /\ exams[Head(task[t].queue)].date_format # "seconds") =>
              /\ task'[t].pc = "cycle"
              /\ task'[t].queue = Tail(task[t].queue)
              /\ task'[t].attempted = {}
              /\ exam_reminders' = exam_reminders
              /\ logs' = logs
        /\ (InBatch(t) \/ Recorded(t)) => exams[task[t].exam].date_format = "seconds"
        /\ \A i \in 1..Len(exam_reminders) :
              exams[exam_reminders[i].exam_id].date_format = "seconds"
      ]_vars

\* exam 1, whose date has no seconds, was passed over with pending students,
\* and the same cycle is sending the reminder of exam 2
C20_Witness ==
    \E t \in Tasks :
        /\ InBatch(t)
        /\ task[t].exam = 2
        /\ task[t].attempted # {}
        /\ faults = 0
        /\ exams[1].date_format = "minutes"
        /\ PendingSet(1) # {}
        /\ Reached(1, 50)
        /\ \A p \in {50, 70, 90} : ~HasEntry(1, p)

\* ======================================================================
\*            concurrency, re-arming, shutdown and the statistics
\* ======================================================================

\* task t is dispatching, or has just recorded, the wave of (e, p)
Dispatching(t, e, p) ==
    /\ InBatch(t) \/ Recorded(t)
    /\ task[t].exam = e
    /\ task[t].reminder.percent = p

\* ---------------------------------------------------------------------
\* C21: the wave of an (exam, threshold) pair is dispatched by at most one
\* pass, also when two passes process the exam at the same time, so that no
\* student gets the reminder of a threshold from two passes.
C21_AtMostOneWave ==
    \A a, b \in Tasks : \A e \in Exams, p \in {50, 70, 90} :
        a # b =>
            /\ ~(Dispatching(a, e, p) /\ Dispatching(b, e, p))
            /\ (Dispatching(a, e, p) /\ Dispatching(b, e, p)) =>
                   task[a].attempted \cap task[b].attempted = {}

\* ---------------------------------------------------------------------
\* C22: every iteration of the recipient loop, whether its send succeeds or
\* fails, takes one recipient off the list and stays in the batch: each
\* pending student gets one attempt or, being manager or owner, is skipped,
\* and when the loop ends every pending student has been attempted or skipped.
C22_SendsIndependent ==
    [][\A t \in Tasks :
        /\ (InBatch(t) /\ task[t].todo # << >> /\ task'[t] # task[t]) =>
              LET u == Head(task[t].todo) IN
              /\ InBatch(t)'
              /\ task'[t].todo = Tail(task[t].todo)
              /\ u \notin task[t].attempted \cup task[t].skipped
              /\ \/ /\ task'[t].attempted = task[t].attempted \cup {u}
                    /\ task'[t].skipped = task[t].skipped
                 \/ /\ task'[t].skipped = task[t].skipped \cup {u}
                    /\ task'[t].attempted = task[t].attempted
                    /\ class_manager = u \/ group_owner = u
        /\ MarkStep(t) =>
              /\ task[t].attempted \cup task[t].skipped = Range(task[t].pending_students)
              /\ task[t].failed \subseteq task[t].attempted
      ]_vars

\* the send to the first of two recipients failed, the second one succeeded
C22_Witness ==
    \E t \in Tasks :
        /\ Recorded(t)
        /\ Len(task[t].pending_students) = 2
        /\ task[t].failed = {task[t].pending_students[1]}
        /\ task[t].attempted = Range(task[t].pending_students)
        /\ task[t].success_count = 1

\* ---------------------------------------------------------------------
\* C23: once the ledger has the entry of (exam, threshold), no pass starts a
\* dispatch of that threshold and nobody gets a message for it, whoever
\* joined the roster since.
C23_NeverRearmed ==
    [][\A t \in Tasks :
        /\ (PassStep(t) /\ task'[t].pc = "send") =>
              ~HasEntry(task'[t].exam, task'[t].reminder.percent)
        /\ NewlyMessaged(t) # {} =>
              ~HasEntry(task[t].exam, task[t].reminder.percent)
      ]_vars

\* ---------------------------------------------------------------------
\* C24: a threshold reached while no student was pending stays eligible: a
\* pass that finds nobody pending leaves the ledger as it is, every cycle
\* queries every exam that is active, and the pass over an exam with pending
\* students dispatches the lowest threshold that is reached and not in the
\* ledger, to the students pending now.
C24_StaysEligible ==
    [][\A t \in Tasks :
        /\ (task[t].pc = "top" /\ task'[t].pc = "cycle") =>
              \A e \in Exams : ExamIsActive(e) => e \in Range(task'[t].queue)
        /\ PassStep(t) =>
              LET e == Head(task[t].queue) IN
              /\ PendingSet(e) = {} =>
                    /\ exam_reminders' = exam_reminders
                    /\ task'[t].pc = "cycle"
              /\ (PendingSet(e) # {} /\ Unfired(e) # {}) =>
                    /\ task'[t].pc = "send"
                    /\ task'[t].exam = e
                    /\ task'[t].reminder.percent = Min(Unfired(e))
                    /\ Range(task'[t].todo) = PendingSet(e)
      ]_vars

\* the class had no student when 50% and 70% were reached; a student was
\* approved later and the 50% threshold has been dispatched
C24_Witness ==
    \E t \in Tasks :
        /\ Recorded(t)
        /\ task[t].reminder.percent = 50
        /\ Reached(task[t].exam, 70)
        /\ task[t].attempted # {}

\* ---------------------------------------------------------------------
\* C25: a cycle whose query of the active exams fails has no exam to pass
\* over, so it sends no message and writes no ledger entry; the loop task
\* sleeps and starts a later cycle, and it ends only at the top of the loop
\* when the running flag is cleared.
C25_QueryFailureSkipsCycle ==
    [][\A t \in Tasks :
        task'[t] # task[t] =>
            /\ (task[t].pc = "top" /\ FaultStep) =>
                  /\ task'[t].pc = "cycle"
                  /\ task'[t].queue = << >>
                  /\ task'[t].attempted = {}
                  /\ exam_reminders' = exam_reminders
            /\ (task[t].pc = "cycle" /\ task[t].queue = << >>) =>
                  /\ task'[t].pc = "sleep"
                  /\ task'[t].attempted = {}
                  /\ exam_reminders' = exam_reminders
            /\ task[t].pc = "sleep" => task'[t].pc = "top"
            /\ task'[t].pc = "done" => (task[t].pc = "top" /\ ~running)
      ]_vars

\* the only loop task dispatches in a cycle after the one whose query failed
C25_Witness ==
    \E t \in Tasks :
        /\ faults > 0
        /\ running
        /\ InBatch(t)
        /\ task[t].attempted # {}
        /\ \A o \in Tasks : o # t => task[o].pc = "none"

\* ---------------------------------------------------------------------
\* C26: after stop() a loop task goes on with the work of its cycle: every
\* remaining recipient of the batch is attempted or skipped as staff, the
\* ledger entry of the batch is written, the remaining exams of the cycle
\* are passed over and dispatched as ever, and the task ends only at the top
\* of the loop.
C26_StopKeepsInFlight ==
    [][\A t \in Tasks :
        (~running /\ task'[t] # task[t]) =>
            /\ (InBatch(t) /\ task[t].todo # << >>) =>
                  /\ task'[t].pc = "send"
                  /\ task'[t].todo = Tail(task[t].todo)
                  /\ Head(task[t].todo) \in task'[t].attempted \cup task'[t].skipped
            /\ (InBatch(t) /\ task[t].todo = << >>) =>
                  /\ task'[t].pc = "log"
                  /\ CountRowsIn(exam_reminders', task[t].exam,
                                 task[t].reminder.percent) = 1
            /\ Recorded(t) =>
                  /\ task'[t].pc = "cycle"
                  /\ task'[t].queue = Tail(task[t].queue)
            /\ (task[t].pc = "cycle" /\ task[t].queue # << >>) =>
                  LET e == Head(task[t].queue) IN
                  IF PendingSet(e) # {} /\ Unfired(e) # {}
                  THEN task'[t].pc = "send" /\ task'[t].exam = e
                  ELSE task'[t].pc = "cycle" /\ task'[t].queue = Tail(task[t].queue)
            /\ task'[t].pc = "done" => task[t].pc = "top"
      ]_vars

\* the running flag is cleared and the only loop task has recorded the
\* dispatch of the last exam of its cycle after that of the first exam
C26_Witness ==
    \E t \in Tasks :
        /\ ~running
        /\ Recorded(t)
        /\ task[t].exam = CycleExams
        /\ HasEntry(1, task[t].reminder.percent)
        /\ \A o \in Tasks : o # t => task[o].pc = "none"

\* ---------------------------------------------------------------------
\* C27: while the running flag is set no loop task is created and the flag
\* stays set: start() returns without a change of state.
C27_StartIdempotent ==
    [][running =>
          /\ running'
          /\ \A t \in Tasks : task[t].pc = "none" => task'[t].pc = "none"
      ]_vars

\* the engine runs with one loop task that has dispatched and sleeps
C27_Witness ==
    /\ running
    /\ Cardinality({t \in Tasks : task[t].pc # "none"}) = 1
    /\ \E t \in Tasks : task[t].pc = "sleep"
    /\ exam_reminders # << >>

C29_StatsConsistent ==
    \A t \in Tasks :
        (InBatch(t) \/ Recorded(t)) =>
            /\ task[t].submitted_count + Len(task[t].pending_students)
                   = task[t].total_students
            /\ SubmissionRate(task[t].submitted_count, task[t].total_students) >= 0
            /\ SubmissionRate(task[t].submitted_count, task[t].total_students) <= 1000

\* ---------------------------------------------------------------------
\* the number of times send_reminder was called on schedule row id
Handled(id) ==
    Cardinality({k \in 1..Len(scheduler.handled) : scheduler.handled[k].schedule_id = id})

\* the number of times it will have been called after the step
HandledNext(id) ==
    Cardinality({k \in 1..Len(scheduler'.handled) : scheduler'.handled[k].schedule_id = id})

\* the step is a call of send_reminder
SendStep == scheduler.pc = "send" /\ scheduler'.pc = "mark"

\* the step is a call of db.mark_reminder_sent
SchedulerMarkStep == scheduler.pc = "mark" /\ scheduler'.pc = "send"

====
